---- MODULE Spec2Model ----
(***************************************************************************)
(* lib_cicd_github: the retrying command runner `run` and the memoized     *)
(* environment decision layer (get_env_data, get_branch, do_* / is_*       *)
(* functions, clear_all_caches).                                           *)
(*                                                                         *)
(* Strings on which the code does character work (strip, lower, split,     *)
(* join) are sequences of one-character strings.  A notification text is   *)
(* a sequence of parts, one part per piece of the f-string that builds it: *)
(* [lit |-> ...] for literal text, [val |-> ...] for an interpolated       *)
(* string and [num |-> ...] for an interpolated number.                    *)
(***************************************************************************)
EXTENDS Integers, Sequences, FiniteSets, TLC

VARIABLES
    runState,   \* "idle" | "running" | "returned" | "exited" | "raised"
    pc,         \* position inside run's loop: "exec" | "sleep" | "flush" | "-"
    args,       \* the arguments of the current call of run
    tries,      \* local `tries` of run
    pending,    \* how the try statement is being left while `finally` runs
    exitCode,   \* argument of sys.exit once the process is terminated, else -1
    log,        \* notifications emitted through lib_log_utils, in order
    execCount,  \* calls of subprocess.run in the current call of run
    sleeps,     \* arguments of time.sleep in the current call of run, in order
    flushCount, \* calls of cli_exit_tools.flush_streams in the current call
    flushErrors,\* of those, the calls that raised
    lastExc,    \* outcome of the latest subprocess.run (`exc` of the except block)
    env,        \* os.environ: a dict from variable names to strings
    envCache,   \* the lru_cache of get_env_data: argument -> cached result
    fnCache,    \* the lru_caches of the argument-less functions: name -> cached result
    lastCall,   \* the latest call of a decision function and what it returned
    scope,      \* the environment variables this behaviour works with
    epoch,      \* "start", "written" (set_env_data was called since the last
                \* clear_all_caches) or "cleared" (clear_all_caches was called
                \* and os.environ was not written since)
    firstVal,   \* <<function, argument>> -> what its first call since the last
                \* clear_all_caches (or since the start) returned
    extra,      \* the one call this run has made and the reference run has not,
                \* and whether os.environ was written since that call
    refEnvCache,\* envCache of the reference run: the same calls and writes
                \* without the extra call
    refFnCache, \* fnCache of the reference run
    job,        \* the job function called last: "install" | "script" |
                \* "after_success" | "deploy", or "none"
    jobPc,      \* the statement of the job that comes next: "entry", a step, or
                \* "done" once its last statement was reached
    dryRun,     \* the dry_run argument of the job
    trace       \* what each statement of the job did so far, in order

runVars == <<runState, pc, args, tries, pending, exitCode, log, execCount,
             sleeps, flushCount, flushErrors, lastExc>>

envVars == <<env, envCache, fnCache, lastCall, scope, epoch, firstVal, extra,
             refEnvCache, refFnCache>>

jobVars == <<job, jobPc, dryRun, trace>>

vars == <<runVars, envVars, jobVars>>

----------------------------------------------------------------------------
(* Bounds *)

\* largest retry count passed to run
MaxRetry == 3

\* the loop of run is cut after this many attempts (it is unbounded for retry <= 0)
MaxAttempts == MaxRetry + 2

----------------------------------------------------------------------------
(* Strings *)

Whitespace == {" ", "\t", "\n"}

RECURSIVE LStrip(_)
LStrip(s) ==
    IF s # <<>> /\ Head(s) \in Whitespace THEN LStrip(Tail(s)) ELSE s

RECURSIVE RStrip(_)
RStrip(s) ==
    IF s # <<>> /\ s[Len(s)] \in Whitespace
    THEN RStrip(SubSeq(s, 1, Len(s) - 1))
    ELSE s

\* str.strip()
Strip(s) == RStrip(LStrip(s))

UpperCase == <<"A", "B", "C", "D", "E", "F", "G", "H", "I", "J", "K", "L", "M",
               "N", "O", "P", "Q", "R", "S", "T", "U", "V", "W", "X", "Y", "Z">>

LowerCase == <<"a", "b", "c", "d", "e", "f", "g", "h", "i", "j", "k", "l", "m",
               "n", "o", "p", "q", "r", "s", "t", "u", "v", "w", "x", "y", "z">>

LowerChar(c) ==
    IF \E i \in DOMAIN UpperCase : UpperCase[i] = c
    THEN LowerCase[CHOOSE i \in DOMAIN UpperCase : UpperCase[i] = c]
    ELSE c

\* the case is not folded
LowerMissing(s) == s

\* str.lower()
Lower(s) == [i \in 1 .. Len(s) |-> LowerChar(s[i])]

\* str.split(sep) for a one-character separator
RECURSIVE Split(_, _)
Split(s, sep) ==
    IF \E i \in DOMAIN s : s[i] = sep
    THEN LET i == CHOOSE k \in DOMAIN s : s[k] = sep /\ \A j \in 1 .. k - 1 : s[j] # sep
         IN  <<SubSeq(s, 1, i - 1)>> \o Split(SubSeq(s, i + 1, Len(s)), sep)
    ELSE <<s>>

\* sep.join(parts)
RECURSIVE Join(_, _)
Join(parts, sep) ==
    IF parts = <<>> THEN <<>>
    ELSE IF Len(parts) = 1 THEN parts[1]
    ELSE parts[1] \o sep \o Join(Tail(parts), sep)

\* str.startswith(prefix)
StartsWith(s, prefix) ==
    Len(s) >= Len(prefix) /\ SubSeq(s, 1, Len(prefix)) = prefix

S_true == <<"t", "r", "u", "e">>
S_release == <<"r", "e", "l", "e", "a", "s", "e">>
S_push == <<"p", "u", "s", "h">>
S_pull_request == <<"p", "u", "l", "l", "_", "r", "e", "q", "u", "e", "s", "t">>
S_windows == <<"w", "i", "n", "d", "o", "w", "s">>
S_linux == <<"l", "i", "n", "u", "x">>
S_macos == <<"m", "a", "c", "o", "s">>
S_pypy3 == <<"p", "y", "p", "y", "-", "3">>
S_unknown_branch == <<"u", "n", "k", "n", "o", "w", "n", " ", "b", "r", "a", "n", "c", "h", ",", " ", "e", "v", "e", "n", "t", "=">>

Lit(t) == [lit |-> t]
Val(s) == [val |-> s]
Num(n) == [num |-> n]

----------------------------------------------------------------------------
(* Environment decision layer: dicts and caches *)

EmptyMap == [k \in {} |-> <<>>]

\* d[k] = x on a dict
Put(d, k, x) == [y \in DOMAIN d \cup {k} |-> IF y = k THEN x ELSE d[y]]

\* a dict without the keys in K
Without(d, K) == [y \in DOMAIN d \ K |-> d[y]]

\* The evaluation of a function carries the caches along: a record with
\* ec (cache of get_env_data), fc (caches of the other functions) and, for
\* a finished call, val (the value returned).
Ret(val, st) == [val |-> val, ec |-> st.ec, fc |-> st.fc]

\* os.getenv(name, "")
os_getenv(name) == IF name \in DOMAIN env THEN env[name] ELSE <<>>

\* @lru_cache on get_env_data(env_variable)
get_env_data(env_variable, st) ==
    IF env_variable \in DOMAIN st.ec
    THEN Ret(st.ec[env_variable], st)
    ELSE LET env_data == IF env_variable \in DOMAIN env THEN env[env_variable] ELSE <<>>
         IN  [val |-> env_data, ec |-> Put(st.ec, env_variable, env_data), fc |-> st.fc]

\* mutant: the function is evaluated at every call
lru_cacheRecomputing(f, st, body) ==
    [val |-> body.val, ec |-> body.ec, fc |-> Put(body.fc, f, body.val)]

\* @lru_cache(maxsize=None) on a function without arguments: body is the
\* evaluation of the function's body from st
lru_cache(f, st, body) ==
    IF f \in DOMAIN st.fc
    THEN Ret(st.fc[f], st)
    ELSE [val |-> body.val, ec |-> body.ec, fc |-> Put(body.fc, f, body.val)]

\* os.getenv(NAME, "").lower() == "true"
FlagGetenv(name, st) == Ret(Lower(os_getenv(name)) = S_true, st)

\* get_env_data(NAME).lower() == "true"
FlagEnvData(name, st) ==
    LET r == get_env_data(name, st) IN Ret(Lower(r.val) = S_true, r)

----------------------------------------------------------------------------
(* Environment decision layer: the memoized functions *)

\* a wrong fixed index in place of -1
LastSegmentThird(s) ==
    LET segments == Split(s, "/")
    IN  IF Len(segments) >= 3 THEN segments[3] ELSE segments[Len(segments)]

\* github_ref.split("/")[-1]
LastSegment(s) == LET segments == Split(s, "/") IN segments[Len(segments)]

get_branch(st) ==
    lru_cache("get_branch", st,
        LET github_ref == get_env_data("GITHUB_REF", st)
            github_head_ref == get_env_data("GITHUB_HEAD_REF", github_ref)
            github_event_name == get_env_data("GITHUB_EVENT_NAME", github_head_ref)
            branch ==
                IF github_event_name.val = S_pull_request THEN github_head_ref.val
                ELSE IF github_event_name.val = S_release THEN S_release
                ELSE IF github_event_name.val = S_push
                THEN IF github_ref.val # <<>>
                     THEN LastSegment(github_ref.val)
                     ELSE S_unknown_branch \o github_event_name.val
                ELSE S_unknown_branch \o github_event_name.val
        IN  Ret(branch, github_event_name))

\* mutant: the joined parts are returned without .strip()
get_pip_prefixUnstripped(st) ==
    lru_cache("get_pip_prefix", st,
        LET c_parts == <<os_getenv("cPREFIX"), os_getenv("cPIP")>>
        IN  Ret(Join(c_parts, <<" ">>), st))

get_pip_prefix(st) ==
    lru_cache("get_pip_prefix", st,
        LET c_parts == <<os_getenv("cPREFIX"), os_getenv("cPIP")>>
        IN  Ret(Strip(Join(c_parts, <<" ">>)), st))

get_python_prefix(st) ==
    lru_cache("get_python_prefix", st,
        LET c_parts == <<os_getenv("cPREFIX"), os_getenv("cPYTHON")>>
        IN  Ret(Strip(Join(c_parts, <<" ">>)), st))

get_github_username(st) ==
    lru_cache("get_github_username", st, get_env_data("GITHUB_REPOSITORY_OWNER", st))

do_mypy_tests(st) == lru_cache("do_mypy_tests", st, FlagGetenv("MYPY_DO_TESTS", st))

do_pytest(st) == lru_cache("do_pytest", st, FlagGetenv("PYTEST_DO_TESTS", st))

do_coverage(st) == lru_cache("do_coverage", st, FlagEnvData("DO_COVERAGE", st))

do_upload_codecov(st) == lru_cache("do_upload_codecov", st, FlagEnvData("DO_COVERAGE_UPLOAD_CODECOV", st))

do_upload_code_climate(st) == lru_cache("do_upload_code_climate", st, FlagEnvData("DO_COVERAGE_UPLOAD_CODE_CLIMATE", st))

do_setup_py(st) == lru_cache("do_setup_py", st, FlagEnvData("DO_SETUP_INSTALL", st))

do_setup_py_test(st) == lru_cache("do_setup_py_test", st, FlagEnvData("DO_SETUP_INSTALL_TEST", st))

do_check_cli(st) == lru_cache("do_check_cli", st, FlagEnvData("DO_CLI_TEST", st))

\* mutant: the check of RST_INCLUDE_TARGET is left out
do_build_docsNoTarget(st) ==
    lru_cache("do_build_docs", st,
        LET build_docs == get_env_data("BUILD_DOCS", st)
            source == get_env_data("RST_INCLUDE_SOURCE", build_docs)
        IN  IF Lower(build_docs.val) # S_true THEN Ret(FALSE, build_docs)
            ELSE IF source.val = <<>> THEN Ret(FALSE, source)
            ELSE Ret(TRUE, source))

do_build_docs(st) ==
    lru_cache("do_build_docs", st,
        LET build_docs == get_env_data("BUILD_DOCS", st)
            source == get_env_data("RST_INCLUDE_SOURCE", build_docs)
            target == get_env_data("RST_INCLUDE_TARGET", source)
        IN  IF Lower(build_docs.val) # S_true THEN Ret(FALSE, build_docs)
            ELSE IF source.val = <<>> THEN Ret(FALSE, source)
            ELSE IF target.val = <<>> THEN Ret(FALSE, target)
            ELSE Ret(TRUE, target))

do_flake8_tests(st) == lru_cache("do_flake8_tests", st, FlagGetenv("DO_FLAKE8_TESTS", st))

do_build(st) == lru_cache("do_build", st, FlagGetenv("BUILD", st))

do_build_test(st) == lru_cache("do_build_test", st, FlagGetenv("BUILD_TEST", st))

is_pypy3(st) ==
    lru_cache("is_pypy3", st,
        LET r == get_env_data("matrix.python-version", st)
        IN  Ret(StartsWith(Lower(r.val), S_pypy3), r))

is_ci_runner_os_windows(st) ==
    lru_cache("is_ci_runner_os_windows", st,
        LET r == get_env_data("RUNNER_OS", st) IN Ret(Lower(r.val) = S_windows, r))

is_ci_runner_os_linux(st) ==
    lru_cache("is_ci_runner_os_linux", st,
        LET r == get_env_data("RUNNER_OS", st) IN Ret(Lower(r.val) = S_linux, r))

is_ci_runner_os_macos(st) ==
    lru_cache("is_ci_runner_os_macos", st,
        LET r == get_env_data("RUNNER_OS", st) IN Ret(Lower(r.val) = S_macos, r))

is_release(st) ==
    lru_cache("is_release", st,
        LET r == get_env_data("GITHUB_EVENT_NAME", st) IN Ret(r.val = S_release, r))

\* mutant: do_deploy leaves its own result behind as the result of do_build
do_deployOverwritingBuild(st) ==
    LET r == lru_cache("do_deploy", st,
                 LET build == do_build(st)
                 IN  IF build.val THEN is_release(build) ELSE Ret(FALSE, build))
    IN  [val |-> r.val, ec |-> r.ec, fc |-> Put(r.fc, "do_build", r.val)]

\* `do_build() and is_release()`: is_release is called only when do_build is true
do_deploy(st) ==
    lru_cache("do_deploy", st,
        LET build == do_build(st)
        IN  IF build.val THEN is_release(build) ELSE Ret(FALSE, build))

\* bool(a and b and c): a later variable is read only when the earlier are non-empty
is_github_actions_active(st) ==
    lru_cache("is_github_actions_active", st,
        LET ci == get_env_data("CI", st)
            workflow == get_env_data("GITHUB_WORKFLOW", ci)
            run_id == get_env_data("GITHUB_RUN_ID", workflow)
        IN  IF ci.val = <<>> THEN Ret(FALSE, ci)
            ELSE IF workflow.val = <<>> THEN Ret(FALSE, workflow)
            ELSE Ret(run_id.val # <<>>, run_id))

\* the functions decorated with @lru_cache, get_env_data apart
Functions ==
    { "get_branch",
      "get_pip_prefix",
      "get_python_prefix",
      "get_github_username",
      "do_mypy_tests",
      "do_pytest",
      "do_coverage",
      "do_upload_codecov",
      "do_upload_code_climate",
      "do_setup_py",
      "do_setup_py_test",
      "do_check_cli",
      "do_build_docs",
      "do_flake8_tests",
      "do_build",
      "do_build_test",
      "is_pypy3",
      "is_ci_runner_os_windows",
      "is_ci_runner_os_linux",
      "is_ci_runner_os_macos",
      "do_deploy",
      "is_release",
      "is_github_actions_active" }

\* f() evaluated from the caches st
Invoke(f, st) ==
    CASE f = "get_branch" -> get_branch(st)
      [] f = "get_pip_prefix" -> get_pip_prefix(st)
      [] f = "get_python_prefix" -> get_python_prefix(st)
      [] f = "get_github_username" -> get_github_username(st)
      [] f = "do_mypy_tests" -> do_mypy_tests(st)
      [] f = "do_pytest" -> do_pytest(st)
      [] f = "do_coverage" -> do_coverage(st)
      [] f = "do_upload_codecov" -> do_upload_codecov(st)
      [] f = "do_upload_code_climate" -> do_upload_code_climate(st)
      [] f = "do_setup_py" -> do_setup_py(st)
      [] f = "do_setup_py_test" -> do_setup_py_test(st)
      [] f = "do_check_cli" -> do_check_cli(st)
      [] f = "do_build_docs" -> do_build_docs(st)
      [] f = "do_flake8_tests" -> do_flake8_tests(st)
      [] f = "do_build" -> do_build(st)
      [] f = "do_build_test" -> do_build_test(st)
      [] f = "is_pypy3" -> is_pypy3(st)
      [] f = "is_ci_runner_os_windows" -> is_ci_runner_os_windows(st)
      [] f = "is_ci_runner_os_linux" -> is_ci_runner_os_linux(st)
      [] f = "is_ci_runner_os_macos" -> is_ci_runner_os_macos(st)
      [] f = "do_deploy" -> do_deploy(st)
      [] f = "is_release" -> is_release(st)
      [] f = "is_github_actions_active" -> is_github_actions_active(st)

\* the environment variables the body of f can read, through its callees too
Reads(f) ==
    CASE f = "get_branch" -> {"GITHUB_REF", "GITHUB_HEAD_REF", "GITHUB_EVENT_NAME"}
      [] f = "get_pip_prefix" -> {"cPREFIX", "cPIP"}
      [] f = "get_python_prefix" -> {"cPREFIX", "cPYTHON"}
      [] f = "get_github_username" -> {"GITHUB_REPOSITORY_OWNER"}
      [] f = "do_mypy_tests" -> {"MYPY_DO_TESTS"}
      [] f = "do_pytest" -> {"PYTEST_DO_TESTS"}
      [] f = "do_coverage" -> {"DO_COVERAGE"}
      [] f = "do_upload_codecov" -> {"DO_COVERAGE_UPLOAD_CODECOV"}
      [] f = "do_upload_code_climate" -> {"DO_COVERAGE_UPLOAD_CODE_CLIMATE"}
      [] f = "do_setup_py" -> {"DO_SETUP_INSTALL"}
      [] f = "do_setup_py_test" -> {"DO_SETUP_INSTALL_TEST"}
      [] f = "do_check_cli" -> {"DO_CLI_TEST"}
      [] f = "do_build_docs" -> {"BUILD_DOCS", "RST_INCLUDE_SOURCE", "RST_INCLUDE_TARGET"}
      [] f = "do_flake8_tests" -> {"DO_FLAKE8_TESTS"}
      [] f = "do_build" -> {"BUILD"}
      [] f = "do_build_test" -> {"BUILD_TEST"}
      [] f = "is_pypy3" -> {"matrix.python-version"}
      [] f = "is_ci_runner_os_windows" -> {"RUNNER_OS"}
      [] f = "is_ci_runner_os_linux" -> {"RUNNER_OS"}
      [] f = "is_ci_runner_os_macos" -> {"RUNNER_OS"}
      [] f = "do_deploy" -> {"BUILD", "GITHUB_EVENT_NAME"}
      [] f = "is_release" -> {"GITHUB_EVENT_NAME"}
      [] f = "is_github_actions_active" -> {"CI", "GITHUB_WORKFLOW", "GITHUB_RUN_ID"}

\* do_deploy.cache_clear() is forgotten
ClearedFunctionsButDeploy ==
    { "is_github_actions_active", "is_release", "do_build",
      "do_build_docs", "do_build_test", "is_ci_runner_os_macos",
      "is_ci_runner_os_linux", "is_ci_runner_os_windows", "is_pypy3",
      "do_flake8_tests", "do_check_cli", "do_setup_py_test", "do_setup_py",
      "do_upload_code_climate", "do_upload_codecov", "do_coverage", "do_pytest",
      "do_mypy_tests", "get_github_username", "get_python_prefix",
      "get_pip_prefix", "get_branch" }

\* the functions whose cache clear_all_caches clears, get_env_data apart
ClearedFunctions ==
    { "is_github_actions_active", "is_release", "do_deploy", "do_build",
      "do_build_docs", "do_build_test", "is_ci_runner_os_macos",
      "is_ci_runner_os_linux", "is_ci_runner_os_windows", "is_pypy3",
      "do_flake8_tests", "do_check_cli", "do_setup_py_test", "do_setup_py",
      "do_upload_code_climate", "do_upload_codecov", "do_coverage", "do_pytest",
      "do_mypy_tests", "get_github_username", "get_python_prefix",
      "get_pip_prefix", "get_branch" }

\* get_env_data.cache_clear() is forgotten
ClearsEnvDataNever == FALSE

\* get_env_data.cache_clear() is among the calls of clear_all_caches
ClearsEnvData == TRUE

----------------------------------------------------------------------------
(* Environment decision layer: inputs *)

FlagVars ==
    { "MYPY_DO_TESTS", "PYTEST_DO_TESTS", "DO_FLAKE8_TESTS", "BUILD", "BUILD_TEST",
      "DO_COVERAGE", "DO_COVERAGE_UPLOAD_CODECOV", "DO_COVERAGE_UPLOAD_CODE_CLIMATE", "DO_SETUP_INSTALL", "DO_SETUP_INSTALL_TEST", "DO_CLI_TEST", "BUILD_DOCS" }

EnvNames == UNION {Reads(f) : f \in Functions}

\* values an environment variable can hold when the process starts
EnvValues(v) ==
    CASE v \in FlagVars ->
            { <<"t", "r", "u", "e">>,
              <<"T", "r", "u", "e">>,
              <<"T", "R", "U", "E">>,
              <<"t", "R", "u", "E">>,
              <<"f", "a", "l", "s", "e">>,
              <<>>,
              <<" ", "t", "r", "u", "e">>,
              <<"t", "r", "u", "e", " ">>,
              <<"t", "r", "u">>,
              <<"1">> }
      [] v = "GITHUB_EVENT_NAME" ->
            { <<"p", "u", "l", "l", "_", "r", "e", "q", "u", "e", "s", "t">>,
              <<"r", "e", "l", "e", "a", "s", "e">>,
              <<"p", "u", "s", "h">>,
              <<"R", "e", "l", "e", "a", "s", "e">>,
              <<"s", "c", "h", "e", "d", "u", "l", "e">>,
              <<>> }
      [] v = "GITHUB_REF" ->
            { <<"r", "e", "f", "s", "/", "h", "e", "a", "d", "s", "/", "d", "e", "v">>,
              <<"r", "e", "f", "s", "/", "t", "a", "g", "s", "/", "v", "1">>,
              <<"r", "e", "f", "s", "/", "p", "u", "l", "l", "/", "7", "/", "m", "e", "r", "g", "e">>,
              <<"m", "a", "i", "n">>,
              <<"r", "e", "f", "s", "/", "h", "e", "a", "d", "s", "/">>,
              <<>> }
      [] v = "GITHUB_HEAD_REF" ->
            { <<"m", "a", "s", "t", "e", "r">>,
              <<"f", "i", "x", "/", "x">>,
              <<>> }
      [] v = "RUNNER_OS" ->
            { <<"L", "i", "n", "u", "x">>,
              <<"m", "a", "c", "O", "S">>,
              <<"W", "i", "n", "d", "o", "w", "s">>,
              <<"l", "i", "n", "u", "x">>,
              <<"o", "s", "2">>,
              <<>> }
      [] v = "matrix.python-version" ->
            { <<"p", "y", "p", "y", "-", "3", ".", "9">>,
              <<"P", "y", "P", "y", "-", "3", ".", "8">>,
              <<"p", "y", "p", "y", "-", "2">>,
              <<"3", ".", "1", "0">>,
              <<"p", "y", "p", "y", "-">>,
              <<>> }
      [] v = "cPREFIX" ->
            { <<"w", "i", "n", "e">>,
              <<>> }
      [] v = "cPIP" ->
            { <<"p", "y", "t", "h", "o", "n", " ", "-", "m", " ", "p", "i", "p">>,
              <<"p", "i", "p">>,
              <<" ", "p", "i", "p">>,
              <<>> }
      [] v = "cPYTHON" ->
            { <<"p", "y", "t", "h", "o", "n", "3">>,
              <<"p", "y", " ">>,
              <<>> }
      [] v \in {"RST_INCLUDE_SOURCE", "RST_INCLUDE_TARGET"} ->
            { <<"a", ".", "r", "s", "t">>,
              <<" ">>,
              <<>> }
      [] OTHER ->
            { <<"x">>,
              <<>> }

\* values written with set_env_data
SetValues(v) ==
    CASE v \in FlagVars -> { S_true, <<"F", "a", "l", "s", "e">> }
      [] v = "GITHUB_EVENT_NAME" -> { S_release, S_push }
      [] v = "GITHUB_REF" -> { <<"a", "/", "b">>, <<>> }
      [] v = "GITHUB_HEAD_REF" -> { <<"m">>, <<>> }
      [] v = "RUNNER_OS" -> { <<"L", "i", "n", "u", "x">>, S_macos }
      [] v = "matrix.python-version" -> { <<"p", "y", "p", "y", "-", "3", "9">>, <<"3">> }
      [] OTHER -> { <<"x">>, <<>> }

\* the dicts over the names in S with start values (any) or written values
Dicts(S, any) ==
    LET Values(v) == IF any THEN EnvValues(v) ELSE SetValues(v)
    IN  UNION { { d \in [D -> UNION {Values(v) : v \in D}] : \A v \in D : d[v] \in Values(v) }
                : D \in SUBSET S }

\* a behaviour works with the variables one function reads
Scopes == {Reads(f) : f \in Functions}

Callable(sc) == {f \in Functions : Reads(f) \subseteq sc}

NoCall == [fn |-> "none", arg |-> "", val |-> FALSE, fresh |-> FALSE]

CachesEmpty == envCache = EmptyMap /\ fnCache = EmptyMap

\* the caches of the reference run
Reference == [ec |-> refEnvCache, fc |-> refFnCache]

NoExtra == [fn |-> "none", written |-> FALSE]

\* the record of first results after a call of fn(arg) that returned val
FirstKept(fn, arg, val) ==
    IF <<fn, arg>> \in DOMAIN firstVal THEN firstVal ELSE Put(firstVal, <<fn, arg>>, val)

\* the decision layer before anything was called, with os.environ = e
InitEnvVars(sc, e) ==
    /\ scope = sc
    /\ env = e
    /\ envCache = EmptyMap
    /\ fnCache = EmptyMap
    /\ lastCall = NoCall
    /\ epoch = "start"
    /\ firstVal = EmptyMap
    /\ extra = NoExtra
    /\ refEnvCache = EmptyMap
    /\ refFnCache = EmptyMap

----------------------------------------------------------------------------
(* Environment decision layer: operations *)

set_env_data(env_variable, env_str) ==
    /\ runState = "idle"
    /\ env_variable \in scope
    /\ env' = Put(env, env_variable, env_str)
    /\ epoch' = "written"
    /\ extra' = IF extra.fn = "none" THEN extra ELSE [extra EXCEPT !.written = TRUE]
    /\ UNCHANGED <<envCache, fnCache, lastCall, scope, firstVal, refEnvCache,
                   refFnCache, runVars, jobVars>>

\* a caller calls f()
CallFunction(f) ==
    /\ runState = "idle"
    /\ f \in Callable(scope)
    /\ LET r == Invoke(f, [ec |-> envCache, fc |-> fnCache])
       IN  /\ envCache' = r.ec
           /\ fnCache' = r.fc
           /\ lastCall' = [fn |-> f, arg |-> "", val |-> r.val, fresh |-> CachesEmpty]
           /\ firstVal' = FirstKept(f, "", r.val)
    /\ LET q == Invoke(f, Reference)
       IN  /\ refEnvCache' = q.ec
           /\ refFnCache' = q.fc
    /\ UNCHANGED <<env, scope, epoch, extra, runVars, jobVars>>

\* a caller calls f(), and the reference run makes no such call
CallExtra(f) ==
    /\ runState = "idle"
    /\ extra.fn = "none"
    /\ f \in Callable(scope)
    /\ LET r == Invoke(f, [ec |-> envCache, fc |-> fnCache])
       IN  /\ envCache' = r.ec
           /\ fnCache' = r.fc
           /\ lastCall' = [fn |-> f, arg |-> "", val |-> r.val, fresh |-> CachesEmpty]
           /\ firstVal' = FirstKept(f, "", r.val)
    /\ extra' = [fn |-> f, written |-> FALSE]
    /\ UNCHANGED <<env, scope, epoch, refEnvCache, refFnCache, runVars, jobVars>>

\* a caller calls get_env_data(env_variable)
CallGetEnvData(env_variable) ==
    /\ runState = "idle"
    /\ env_variable \in scope
    /\ LET r == get_env_data(env_variable, [ec |-> envCache, fc |-> fnCache])
       IN  /\ envCache' = r.ec
           /\ fnCache' = r.fc
           /\ lastCall' = [fn |-> "get_env_data", arg |-> env_variable, val |-> r.val,
                           fresh |-> CachesEmpty]
           /\ firstVal' = FirstKept("get_env_data", env_variable, r.val)
    /\ LET q == get_env_data(env_variable, Reference)
       IN  /\ refEnvCache' = q.ec
           /\ refFnCache' = q.fc
    /\ UNCHANGED <<env, scope, epoch, extra, runVars, jobVars>>

clear_all_caches ==
    /\ runState = "idle"
    /\ fnCache' = Without(fnCache, ClearedFunctions)
    /\ envCache' = IF ClearsEnvData THEN EmptyMap ELSE envCache
    /\ epoch' = "cleared"
    /\ refFnCache' = Without(refFnCache, ClearedFunctions)
    /\ refEnvCache' = IF ClearsEnvData THEN EmptyMap ELSE refEnvCache
    /\ firstVal' = EmptyMap
    /\ extra' = NoExtra
    /\ UNCHANGED <<env, lastCall, scope, runVars, jobVars>>

----------------------------------------------------------------------------
(* run: inputs *)

Descriptions == { <<"t">> }

Commands == { <<"l", "s">>, <<" ", "l", "s", "\n">>, <<"p", "w">>, <<" ">> }

RetryValues == -1 .. MaxRetry

SleepValues == {0, 30}

RunArgs ==
    [description : Descriptions, command : Commands, retry : RetryValues,
     sleep : SleepValues, banner : BOOLEAN, show_command : BOOLEAN]

ReturnCodes == {1, 2, 127}

\* what subprocess.run(command, shell=True, check=True) does: it returns, or
\* raises CalledProcessError carrying the non-zero returncode of the child, or
\* raises an exception without a returncode attribute (the launch failed)
ExecOutcomes ==
    { [type |-> "ok"], [type |-> "OSError"] }
    \cup [type : {"CalledProcessError"}, returncode : ReturnCodes]

\* what cli_exit_tools.flush_streams() does: it returns, or raises the
\* ValueError ("underlying buffer has been detached") the source handles
FlushOutcomes == {"ok", "ValueError"}

----------------------------------------------------------------------------
(* run: notifications *)

Notification(fn, banner, text) == [fn |-> fn, banner |-> banner, text |-> text]

command_description(a) ==
    IF a.show_command THEN Val(Strip(a.command)) ELSE Lit("***secret***")

\* str(exc)
ExcStr(exc, a) ==
    IF exc.type = "CalledProcessError"
    THEN <<Lit("Command '"), Val(Strip(a.command)),
           Lit("' returned non-zero exit status "), Num(exc.returncode), Lit(".")>>
    ELSE <<Lit(exc.type)>>

\* the final error shows str(exc) whatever show_command says
exc_messageLeaky(exc, a) == ExcStr(exc, a)

exc_message(exc, a) ==
    IF a.show_command
    THEN ExcStr(exc, a)
    ELSE <<Lit("Command ***secret*** returned non-zero exit status")>>

StartingNotification(a) ==
    Notification("banner_success", a.banner,
        <<Lit("Action: "), Val(a.description), Lit("\nCommand: "),
          command_description(a)>>)

SuccessNotification(a) ==
    Notification("banner_success", FALSE, <<Lit("Success: "), Val(a.description)>>)

RetryNotification(a) ==
    Notification("banner_spam", FALSE,
        <<Lit("Retry in "), Num(a.sleep), Lit(" seconds: "), Val(a.description),
          Lit("\nCommand: "), command_description(a)>>)

ErrorNotification(exc, a) ==
    Notification("banner_error", TRUE,
        <<Lit("Error: "), Val(a.description), Lit("\nCommand: "),
          command_description(a), Lit("\n")>> \o exc_message(exc, a))

----------------------------------------------------------------------------
(* run: the loop *)

\* the decrement is tested before it is made: one attempt too many
TruthyBeforeDecrement(n) == n + 1 # 0

\* `if tries:` - an int is true unless it is 0
Truthy(n) == n # 0

\* the exit code of the child is dropped
SysExitCodeAlwaysOne(exc) == 1

\* the argument of sys.exit: exc.returncode when the exception has one
\* (subprocess always sets an int there), otherwise 1
SysExitCode(exc) ==
    IF "returncode" \in DOMAIN exc THEN exc.returncode ELSE 1

\* the loop is not left after a success
SuccessLeaveContinue == [kind |-> "continue"]

\* `break` after the success notification
SuccessLeave == [kind |-> "break"]

\* no handler around flush_streams
FlushHandledNever(f) == FALSE

\* `except ValueError: pass` around flush_streams
FlushHandled(f) == f = "ValueError"

NoArgs ==
    [description |-> <<>>, command |-> <<>>, retry |-> 0, sleep |-> 0,
     banner |-> TRUE, show_command |-> TRUE]

InitRunVars ==
    /\ runState = "idle"
    /\ pc = "-"
    /\ args = NoArgs
    /\ tries = 0
    /\ pending = [kind |-> "none"]
    /\ exitCode = -1
    /\ log = <<>>
    /\ execCount = 0
    /\ sleeps = <<>>
    /\ flushCount = 0
    /\ flushErrors = 0
    /\ lastExc = [type |-> "none"]

InitJobVars ==
    /\ job = "none"
    /\ jobPc = "done"
    /\ dryRun = TRUE
    /\ trace = <<>>

\* run(...) is entered: strip, the starting notification, tries = retry
RunEntry(a) ==
    /\ runState' = "running"
    /\ args' = a
    /\ log' = <<StartingNotification(a)>>
    /\ tries' = a.retry
    /\ pc' = "exec"
    /\ pending' = [kind |-> "none"]
    /\ execCount' = 0
    /\ sleeps' = <<>>
    /\ flushCount' = 0
    /\ flushErrors' = 0
    /\ lastExc' = [type |-> "none"]
    /\ UNCHANGED exitCode

\* a caller calls run(...)
CallRun(a) ==
    /\ runState \in {"idle", "returned"}
    /\ RunEntry(a)
    /\ UNCHANGED <<envVars, jobVars>>

\* one subprocess.run and the branch taken on its outcome, up to the sleep or
\* the point where the try statement is left
Execute(o) ==
    /\ runState = "running"
    /\ pc = "exec"
    /\ execCount < MaxAttempts
    /\ execCount' = execCount + 1
    /\ lastExc' = o
    /\ IF o.type = "ok"
       THEN /\ log' = Append(log, SuccessNotification(args))
            /\ pending' = SuccessLeave
            /\ pc' = "flush"
            /\ UNCHANGED tries
       ELSE /\ tries' = tries - 1
            /\ IF Truthy(tries')
               THEN /\ log' = Append(log, RetryNotification(args))
                    /\ pending' = [kind |-> "none"]
                    /\ pc' = "sleep"
               ELSE /\ log' = Append(log, ErrorNotification(o, args))
                    /\ pending' = [kind |-> "exit", code |-> SysExitCode(o)]
                    /\ pc' = "flush"
    /\ UNCHANGED <<runState, args, exitCode, sleeps, flushCount, flushErrors, envVars,
                   jobVars>>

\* time.sleep(sleep) returns; the except block ends and the loop will go on
Sleep ==
    /\ runState = "running"
    /\ pc = "sleep"
    /\ sleeps' = Append(sleeps, args.sleep)
    /\ pending' = [kind |-> "continue"]
    /\ pc' = "flush"
    /\ UNCHANGED <<runState, args, tries, exitCode, log, execCount, flushCount,
                   flushErrors, lastExc, envVars, jobVars>>

\* the finally block: flush_streams, then the try statement is left the way
\* `pending` says unless an exception of the flush escapes
Flush(f) ==
    /\ runState = "running"
    /\ pc = "flush"
    /\ flushCount' = flushCount + 1
    /\ flushErrors' = IF f = "ok" THEN flushErrors ELSE flushErrors + 1
    /\ IF f # "ok" /\ ~FlushHandled(f)
       THEN /\ runState' = "raised"
            /\ pc' = "-"
            /\ UNCHANGED exitCode
       ELSE CASE pending.kind = "break" ->
                    /\ runState' = "returned"
                    /\ pc' = "-"
                    /\ UNCHANGED exitCode
              [] pending.kind = "exit" ->
                    /\ runState' = "exited"
                    /\ pc' = "-"
                    /\ exitCode' = pending.code
              [] OTHER ->
                    /\ pc' = "exec"
                    /\ UNCHANGED <<runState, exitCode>>
    /\ UNCHANGED <<args, tries, pending, log, execCount, sleeps, lastExc, envVars,
                   jobVars>>

\* the runner alone: the decision layer is not used
InitRun == InitRunVars /\ InitEnvVars({}, EmptyMap) /\ InitJobVars

NextRun ==
    \/ \E a \in RunArgs : CallRun(a)
    \/ \E o \in ExecOutcomes : Execute(o)
    \/ Sleep
    \/ \E f \in FlushOutcomes : Flush(f)

SpecRun == InitRun /\ [][NextRun]_vars

----------------------------------------------------------------------------
(* Environment decision layer: specifications *)

\* decisions on a fixed environment: any environment the process can start in
InitDecide ==
    /\ InitRunVars
    /\ InitJobVars
    /\ \E sc \in Scopes : \E e \in Dicts(sc, TRUE) : InitEnvVars(sc, e)

NextDecide ==
    \/ \E f \in Functions : CallFunction(f)
    \/ \E v \in EnvNames : CallGetEnvData(v)
    \/ clear_all_caches

SpecDecide == InitDecide /\ [][NextDecide]_vars

\* decisions interleaved with writes of the environment
InitEnv ==
    /\ InitRunVars
    /\ InitJobVars
    /\ \E sc \in Scopes : \E e \in Dicts(sc, FALSE) : InitEnvVars(sc, e)

NextEnv ==
    \/ \E v \in EnvNames : \E x \in SetValues(v) : set_env_data(v, x)
    \/ \E f \in Functions : CallFunction(f)
    \/ \E v \in EnvNames : CallGetEnvData(v)
    \/ clear_all_caches

SpecEnv == InitEnv /\ [][NextEnv]_vars

\* the same, with one call that a reference run does not make
NextFrame ==
    \/ \E v \in EnvNames : \E x \in SetValues(v) : set_env_data(v, x)
    \/ \E f \in Functions : CallFunction(f)
    \/ \E f \in Functions : CallExtra(f)
    \/ \E v \in EnvNames : CallGetEnvData(v)
    \/ clear_all_caches

\* the functions whose variables the behaviours with an extra call work with:
\* do_deploy shares BUILD with do_build and GITHUB_EVENT_NAME with is_release
FrameScopes == {Reads(f) : f \in {"do_deploy", "do_build", "is_release", "do_coverage"}}

InitFrame ==
    /\ InitRunVars
    /\ InitJobVars
    /\ \E sc \in FrameScopes : \E e \in Dicts(sc, FALSE) : InitEnvVars(sc, e)

SpecFrame == InitFrame /\ [][NextFrame]_vars

----------------------------------------------------------------------------
(* Jobs: install, script, after_success, deploy *)

Jobs == {"install", "script", "after_success", "deploy"}

\* `retry: int = 3` and `sleep: int = 30` of run
DefaultRetry == 3
DefaultSleep == 30

\* run(description=..., command=...) with the other parameters as given
RunWith(description, command, banner, show_command) ==
    [description |-> description, command |-> command, retry |-> DefaultRetry,
     sleep |-> DefaultSleep, banner |-> banner, show_command |-> show_command]

\* lib_log_utils.banner_spam(text) and banner_warning(text) of a job
Spam(text) == Notification("banner_spam", TRUE, <<Lit(text)>>)
Warning(text) == Notification("banner_warning", TRUE, <<Lit(text)>>)

\* pathlib.Path(s).name of a path that ends neither in "/" nor in "."
PathName(s) == LastSegment(s)

\* What one statement of a job does: st are the caches after the decisions it
\* evaluated, gated says whether a boolean decision guards it and decision
\* what that decision was, notes are the notifications the job itself
\* emitted, ran is the call of run it made (none or one) and next is the
\* statement that follows.  A text is a sequence whose elements are single
\* characters or literal fragments of the source.
Statement(st, gated, decision, notes, ran, next) ==
    [st |-> [ec |-> st.ec, fc |-> st.fc], gated |-> gated, decision |-> decision,
     notes |-> notes, ran |-> ran, next |-> next]

\* install(dry_run=False) from statement p on.  The local pip_prefix is read
\* again from the cache get_pip_prefix left it in.
install(p, st) ==
    LET pip_prefix == get_pip_prefix(st)
    IN  CASE p = "install pip" ->
                Statement(pip_prefix, FALSE, TRUE, <<>>,
                    <<RunWith(<<"install pip">>,
                              Join(<<pip_prefix.val, <<"install --upgrade pip">>>>, <<" ">>),
                              TRUE, TRUE)>>,
                    "install setuptools")
          [] p = "install setuptools" ->
                Statement(pip_prefix, FALSE, TRUE, <<>>,
                    <<RunWith(<<"install setuptools">>,
                              Join(<<pip_prefix.val, <<"install --upgrade setuptools">>>>, <<" ">>),
                              TRUE, TRUE)>>,
                    "install package")
          [] p = "install package" ->
                LET test == do_setup_py_test(pip_prefix)
                    setup == do_setup_py(test)
                IN  IF test.val
                    THEN Statement(test, TRUE, TRUE, <<>>,
                            <<RunWith(<<"install package in editable(develop) mode">>,
                                      Join(<<pip_prefix.val, <<"install --editable .[test]">>>>, <<" ">>),
                                      TRUE, TRUE)>>,
                            "done")
                    ELSE IF setup.val
                    THEN Statement(setup, TRUE, TRUE, <<>>,
                            <<RunWith(<<"install package">>,
                                      Join(<<pip_prefix.val, <<"install .">>>>, <<" ">>),
                                      TRUE, TRUE)>>,
                            "done")
                    ELSE Statement(setup, TRUE, FALSE,
                            <<Spam("package will be not installed")>>, <<>>, "done")

list_dist_directory(st, dist_is_dir) ==
    LET command_prefix == get_env_data("cPREFIX", st)
    IN  IF dist_is_dir
        THEN Statement(command_prefix, TRUE, TRUE, <<>>,
                <<RunWith(<<"list ./dist directory">>,
                          command_prefix.val \o <<" ", "ls -l ./dist">>, TRUE, TRUE)>>,
                "done")
        ELSE Statement(command_prefix, TRUE, FALSE,
                <<Warning("no \"./dist\" directory found")>>, <<>>, "done")

\* script(dry_run=False) from statement p on.  The locals command_prefix,
\* package_name, python_prefix and pip_prefix are set before the first
\* statement and read again from the caches afterwards.
script(p, st, dist_is_dir) ==
    LET command_prefix == get_env_data("cPREFIX", st)
        package_name == get_env_data("PACKAGE_NAME", command_prefix)
        python_prefix == get_python_prefix(package_name)
        pip_prefix == get_pip_prefix(python_prefix)
    IN  CASE p = "flake8 tests" ->
                LET d == do_flake8_tests(pip_prefix)
                IN  IF d.val
                    THEN Statement(d, TRUE, TRUE, <<>>,
                            <<RunWith(<<"flake8 tests">>,
                                      python_prefix.val \o <<" ", "-m flake8 --statistics --benchmark">>,
                                      TRUE, TRUE)>>,
                            "mypy tests")
                    ELSE Statement(d, TRUE, FALSE,
                            <<Spam("flake8 tests disabled on this build")>>, <<>>, "mypy tests")
          [] p = "mypy tests" ->
                LET d == do_mypy_tests(pip_prefix)
                    mypy_options == get_env_data("MYPY_OPTIONS", d)
                IN  IF d.val
                    THEN Statement(mypy_options, TRUE, TRUE, <<>>,
                            <<RunWith(<<"mypy tests">>,
                                      python_prefix.val \o <<" ", "-m mypy -p", " ">>
                                        \o package_name.val \o <<" ">> \o mypy_options.val,
                                      TRUE, TRUE)>>,
                            "run pytest")
                    ELSE Statement(d, TRUE, FALSE,
                            <<Spam("mypy tests disabled on this build")>>, <<>>, "run pytest")
          [] p = "run pytest" ->
                LET d == do_pytest(pip_prefix)
                    c == do_coverage(d)
                    option_codecov == IF c.val THEN <<"--cov=">> \o package_name.val ELSE <<>>
                IN  IF d.val
                    THEN Statement(c, TRUE, TRUE,
                            IF c.val THEN <<>> ELSE <<Spam("coverage disabled on this build")>>,
                            <<RunWith(<<"run pytest">>,
                                      python_prefix.val \o <<" ", "-m pytest", " ">> \o option_codecov,
                                      TRUE, TRUE)>>,
                            "check CLI command")
                    ELSE Statement(d, TRUE, FALSE,
                            <<Spam("pytest disabled on this build")>>, <<>>, "check CLI command")
          [] p = "check CLI command" ->
                LET d == do_check_cli(pip_prefix)
                    cli_command == get_env_data("CLI_COMMAND", d)
                IN  IF d.val
                    THEN Statement(cli_command, TRUE, TRUE, <<>>,
                            <<RunWith(<<"check CLI command">>,
                                      command_prefix.val \o <<" ">> \o cli_command.val
                                        \o <<" ", "--version">>,
                                      TRUE, TRUE)>>,
                            "rst rebuild")
                    ELSE Statement(d, TRUE, FALSE, <<>>, <<>>, "rst rebuild")
          [] p = "rst rebuild" ->
                LET d == do_build_docs(pip_prefix)
                    rst_include_source == os_getenv("RST_INCLUDE_SOURCE")
                    rst_include_target == os_getenv("RST_INCLUDE_TARGET")
                IN  IF d.val
                    THEN Statement(d, TRUE, TRUE, <<>>,
                            <<RunWith(<<"rst rebuild", " ">> \o PathName(rst_include_target)
                                        \o <<" ", "from", " ">> \o PathName(rst_include_source),
                                      command_prefix.val \o <<" ", "rst_include include", " ">>
                                        \o rst_include_source \o <<" ">> \o rst_include_target,
                                      TRUE, TRUE)>>,
                            "upgrade building system")
                    ELSE Statement(d, TRUE, FALSE,
                            <<Spam("rebuild doc file is disabled on this build")>>, <<>>,
                            "upgrade building system")
          [] p = "upgrade building system" ->
                LET build == do_build(pip_prefix)
                    d == IF build.val THEN build ELSE do_build_test(build)
                IN  IF d.val
                    THEN Statement(d, TRUE, TRUE, <<>>,
                            <<RunWith(<<"upgrade building system">>,
                                      Join(<<pip_prefix.val, <<"install --upgrade build">>>>, <<" ">>),
                                      TRUE, TRUE)>>,
                            "upgrade twine")
                    ELSE Statement(d, TRUE, FALSE, <<>>, <<>>, "done")
          [] p = "upgrade twine" ->
                Statement(pip_prefix, FALSE, TRUE, <<>>,
                    <<RunWith(<<"upgrade twine">>,
                              Join(<<pip_prefix.val, <<"install --upgrade twine">>>>, <<" ">>),
                              TRUE, TRUE)>>,
                    "build wheel and sdist")
          [] p = "build wheel and sdist" ->
                Statement(pip_prefix, FALSE, TRUE, <<>>,
                    <<RunWith(<<"build wheel and sdist">>,
                              Join(<<python_prefix.val, <<"-m build">>>>, <<" ">>),
                              TRUE, TRUE)>>,
                    "check distributions")
          [] p = "check distributions" ->
                Statement(pip_prefix, FALSE, TRUE, <<>>,
                    <<RunWith(<<"check distributions">>,
                              Join(<<python_prefix.val, <<"-m twine check dist/*">>>>, <<" ">>),
                              TRUE, TRUE)>>,
                    "list ./dist directory")
          [] p = "list ./dist directory" ->
                list_dist_directory(pip_prefix, dist_is_dir)

\* the first statements of download_code_climate_test_reporter_on_linux_or_macos,
\* up to its first call of run
download_code_climate_test_reporter_on_linux_or_macos(st) ==
    LET macos == is_ci_runner_os_macos(st)
        linux == is_ci_runner_os_linux(macos)
        download == <<"curl -L", " ">>
        target == <<" ", "> ./cc-test-reporter">>
    IN  IF macos.val
        THEN Statement(macos, TRUE, TRUE, <<>>,
                <<RunWith(<<"download code climate test reporter">>,
                          download \o <<"https://codeclimate.com/downloads/test-reporter/test-reporter-latest-darwin-amd64">> \o target,
                          TRUE, TRUE)>>,
                "set permissions for code climate test reporter")
        ELSE IF linux.val
        THEN Statement(linux, TRUE, TRUE, <<>>,
                <<RunWith(<<"download code climate test reporter">>,
                          download \o <<"https://codeclimate.com/downloads/test-reporter/test-reporter-latest-linux-amd64">> \o target,
                          TRUE, TRUE)>>,
                "set permissions for code climate test reporter")
        ELSE Statement(linux, TRUE, TRUE,
                <<Warning("Code Climate Coverage - unknown RUNNER_OS ")>>,
                <<RunWith(<<"download code climate test reporter">>,
                          download \o target, TRUE, TRUE)>>,
                "set permissions for code climate test reporter")

upload_code_climate_test_report_on_linux_or_macos(st) ==
    LET id == get_env_data("CC_TEST_REPORTER_ID", st)
        cc_test_reporter_id == Strip(id.val)
    IN  Statement(id, FALSE, TRUE, <<>>,
            <<RunWith(<<"code climate test report upload">>,
                      <<"./cc-test-reporter after-build --exit-code", " ", "0", " ", "--id", " ">>
                        \o cc_test_reporter_id,
                      TRUE, TRUE)>>,
            "done")

\* after_success(dry_run=False) from statement p on.  The locals
\* command_prefix and cc_test_reporter_id are set before the first statement.
after_success(p, st) ==
    LET command_prefix == get_env_data("cPREFIX", st)
        id == get_env_data("CC_TEST_REPORTER_ID", command_prefix)
        cc_test_reporter_id == Strip(id.val)
    IN  CASE p = "coverage report" ->
                LET d == do_coverage(id)
                IN  IF d.val
                    THEN Statement(d, TRUE, TRUE, <<>>,
                            <<RunWith(<<"coverage report">>,
                                      command_prefix.val \o <<" ", "coverage report">>,
                                      TRUE, TRUE)>>,
                            "coverage upload to codecov")
                    ELSE Statement(d, TRUE, FALSE, <<>>, <<>>, "done")
          [] p = "coverage upload to codecov" ->
                LET d == do_upload_codecov(id)
                IN  IF d.val
                    THEN Statement(d, TRUE, TRUE, <<>>,
                            <<RunWith(<<"coverage upload to codecov">>,
                                      command_prefix.val \o <<" ", "codecov">>, TRUE, TRUE)>>,
                            "download code climate test reporter")
                    ELSE Statement(d, TRUE, FALSE, <<Spam("codecov upload disabled")>>, <<>>,
                            "download code climate test reporter")
          [] p = "download code climate test reporter" ->
                LET d == do_upload_code_climate(id)
                    macos == is_ci_runner_os_macos(d)
                    linux == IF macos.val THEN macos ELSE is_ci_runner_os_linux(macos)
                    windows == is_ci_runner_os_windows(linux)
                IN  IF d.val /\ cc_test_reporter_id # <<>>
                    THEN IF linux.val
                         THEN download_code_climate_test_reporter_on_linux_or_macos(linux)
                         ELSE IF windows.val
                         THEN Statement(windows, TRUE, TRUE,
                                <<Warning("Code Climate: no working \"codeclimate-test-reporter\" for Windows available, Nov. 2021")>>,
                                <<>>, "done")
                         ELSE Statement(windows, TRUE, TRUE,
                                <<Warning("Code Climate Coverage - unknown RUNNER_OS ")>>,
                                <<>>, "done")
                    ELSE Statement(d, TRUE, FALSE,
                            <<Spam("Code Climate Coverage is disabled, no CC_TEST_REPORTER_ID")>>,
                            <<>>, "done")
          [] p = "set permissions for code climate test reporter" ->
                Statement(id, FALSE, TRUE, <<>>,
                    <<RunWith(<<"set permissions for code climate test reporter">>,
                              <<"chmod +x ./cc-test-reporter">>, FALSE, TRUE)>>,
                    "code climate test report upload")
          [] p = "code climate test report upload" ->
                upload_code_climate_test_report_on_linux_or_macos(id)

\* mutant: an empty password is not noticed
MissingNever(pypi_password) == FALSE

\* `not pypi_password`
Missing(pypi_password) == pypi_password = <<>>

\* mutant: the upload is handed to run with the command shown
UploadShowCommandDefault == TRUE

\* `show_command=False` of the upload
UploadShowCommand == FALSE

\* deploy(dry_run=False): its if statement
deploy(p, st) ==
    LET password == get_env_data("PYPI_PASSWORD", st)
        pypi_password == Strip(password.val)
        d == do_deploy(password)
        python_prefix == get_python_prefix(d)
        github_username == get_github_username(python_prefix)
    IN  IF Missing(pypi_password)
        THEN Statement(password, TRUE, FALSE,
                <<Warning("can not deploy, because secret PYPI_PASSWORD is missing")>>,
                <<>>, "done")
        ELSE IF d.val
        THEN Statement(github_username, TRUE, TRUE, <<>>,
                <<RunWith(<<"upload to pypi">>,
                          Join(<<python_prefix.val,
                                 <<"-m twine upload --repository-url https://upload.pypi.org/legacy/ -u">>,
                                 github_username.val,
                                 <<"-p">>,
                                 pypi_password,
                                 <<"--skip-existing">>,
                                 <<"dist/*">>>>, <<" ">>),
                          TRUE, UploadShowCommand)>>,
                "done")
        ELSE Statement(d, TRUE, FALSE,
                <<Spam("pypi deploy is disabled on this build")>>, <<>>, "done")

\* the first statement after `if dry_run: return`
FirstStatement(j) ==
    CASE j = "install" -> "install pip"
      [] j = "script" -> "flake8 tests"
      [] j = "after_success" -> "coverage report"
      [] j = "deploy" -> "upload to pypi"

Body(j, p, st, dist_is_dir) ==
    CASE j = "install" -> install(p, st)
      [] j = "script" -> script(p, st, dist_is_dir)
      [] j = "after_success" -> after_success(p, st)
      [] j = "deploy" -> deploy(p, st)

\* mutant: the flag is not looked at
DryRunIgnored(dry_run) == FALSE

\* `if dry_run: return`
DryRunReturns(dry_run) == dry_run

\* mutant: the job goes on after sys.exit
JobMayProceedAfterExit == runState \in {"idle", "returned", "exited"}

\* the job reaches its next statement when the run before it has returned:
\* sys.exit in run ends the process
JobMayProceed == runState \in {"idle", "returned"}

----------------------------------------------------------------------------
(* Jobs: environments *)

\* the environment variables a job reads
JobScope(j) ==
    CASE j = "install" ->
            {"cPREFIX", "cPIP", "DO_SETUP_INSTALL", "DO_SETUP_INSTALL_TEST"}
      [] j = "script" ->
            {"cPREFIX", "cPIP", "cPYTHON", "PACKAGE_NAME", "MYPY_OPTIONS", "CLI_COMMAND",
             "RST_INCLUDE_SOURCE", "RST_INCLUDE_TARGET", "DO_FLAKE8_TESTS", "MYPY_DO_TESTS",
             "PYTEST_DO_TESTS", "DO_COVERAGE", "DO_CLI_TEST", "BUILD_DOCS", "BUILD",
             "BUILD_TEST"}
      [] j = "after_success" ->
            {"cPREFIX", "CC_TEST_REPORTER_ID", "DO_COVERAGE", "DO_COVERAGE_UPLOAD_CODECOV",
             "DO_COVERAGE_UPLOAD_CODE_CLIMATE", "RUNNER_OS"}
      [] j = "deploy" ->
            {"cPREFIX", "cPYTHON", "GITHUB_REPOSITORY_OWNER", "PYPI_PASSWORD", "BUILD",
             "GITHUB_EVENT_NAME"}

\* the variables a job is started with or without: the flags and the secrets
JobOptional ==
    FlagVars \cup {"PYPI_PASSWORD", "CC_TEST_REPORTER_ID", "RUNNER_OS", "GITHUB_EVENT_NAME"}

\* the values the variables of a job are started with
JobValues(v) ==
    CASE v \in FlagVars -> { S_true }
      [] v = "cPREFIX" -> { <<"w", "i", "n", "e">> }
      [] v = "cPIP" -> { <<"p", "i", "p">> }
      [] v = "cPYTHON" -> { <<"p", "y">> }
      [] v = "PACKAGE_NAME" -> { <<"p", "k", "g">> }
      [] v = "MYPY_OPTIONS" -> { <<"-", "-", "s">> }
      [] v = "CLI_COMMAND" -> { <<"c", "l", "i">> }
      [] v = "RST_INCLUDE_SOURCE" -> { <<"d", "/", "s", ".", "r">> }
      [] v = "RST_INCLUDE_TARGET" -> { <<"R", ".", "r">> }
      [] v = "GITHUB_REPOSITORY_OWNER" -> { <<"b", "i", "t">> }
      [] v = "RUNNER_OS" -> { <<"L", "i", "n", "u", "x">>, <<"m", "a", "c", "O", "S">>,
                              <<"W", "i", "n", "d", "o", "w", "s">> }
      [] v = "GITHUB_EVENT_NAME" -> { S_release, S_push }
      [] v = "CC_TEST_REPORTER_ID" -> { <<"i", "d">>, <<" ">> }
      [] v = "PYPI_PASSWORD" -> { <<"s", "3", "c">>, <<" ", "s", "3", "c", "\n">>, <<" ">> }

\* the dicts over the names in S a job can be started with
RECURSIVE JobDicts(_)
JobDicts(S) ==
    IF S = {} THEN {EmptyMap}
    ELSE LET v == CHOOSE x \in S : TRUE
             rest == JobDicts(S \ {v})
             with == {Put(d, v, x) : d \in rest, x \in JobValues(v)}
         IN  IF v \in JobOptional THEN rest \cup with ELSE with

----------------------------------------------------------------------------
(* Jobs: operations *)

\* a caller calls job j with dry_run = d
CallJob(j, d) ==
    /\ runState \in {"idle", "returned"}
    /\ jobPc = "done"
    /\ scope = JobScope(j)
    /\ job' = j
    /\ dryRun' = d
    /\ jobPc' = "entry"
    /\ trace' = <<>>
    /\ UNCHANGED <<runVars, envVars>>

\* `if dry_run: return`
JobEnter ==
    /\ jobPc = "entry"
    /\ jobPc' = IF DryRunReturns(dryRun) THEN "done" ELSE FirstStatement(job)
    /\ UNCHANGED <<job, dryRun, trace, runVars, envVars>>

\* the next statement of the job: its decisions, its notifications and its
\* call of run up to the first subprocess.run
JobStep(dist_is_dir) ==
    /\ jobPc \notin {"entry", "done"}
    /\ JobMayProceed
    /\ LET o == Body(job, jobPc, [ec |-> envCache, fc |-> fnCache], dist_is_dir)
       IN  /\ envCache' = o.st.ec
           /\ fnCache' = o.st.fc
           /\ trace' = Append(trace, [step |-> jobPc, gated |-> o.gated,
                                      decision |-> o.decision, notes |-> o.notes,
                                      ran |-> o.ran])
           /\ jobPc' = o.next
           /\ IF o.ran # <<>> THEN RunEntry(o.ran[1]) ELSE UNCHANGED runVars
    /\ UNCHANGED <<job, dryRun, env, lastCall, scope, epoch, firstVal, extra,
                   refEnvCache, refFnCache>>

\* what subprocess.run does to the command of a job
JobOutcomes == { [type |-> "ok"], [type |-> "CalledProcessError", returncode |-> 2] }

\* a job is called in a process that has called nothing before
InitJob ==
    /\ InitRunVars
    /\ InitJobVars
    /\ \E j \in Jobs : \E e \in JobDicts(JobScope(j)) : InitEnvVars(JobScope(j), e)

NextJob ==
    \/ \E j \in Jobs : \E d \in BOOLEAN : CallJob(j, d)
    \/ JobEnter
    \/ \E dist_is_dir \in BOOLEAN : JobStep(dist_is_dir)
    \/ \E o \in JobOutcomes : Execute(o)
    \/ Sleep
    \/ \E f \in FlushOutcomes : Flush(f)

SpecJob == InitJob /\ [][NextJob]_vars

----------------------------------------------------------------------------
(* Properties of run *)

Mentions(n, s) == \E i \in DOMAIN n.text : "val" \in DOMAIN n.text[i] /\ n.text[i].val = s

NotificationsBy(fn) == {i \in DOMAIN log : log[i].fn = fn}

ChildCode(exc) == IF exc.type = "CalledProcessError" THEN exc.returncode ELSE 1

\* C1: with retry = N >= 1 and every attempt failing, run executes the command
\* exactly N times, sleeps exactly N-1 times for `sleep` seconds, each sleep
\* between two attempts and none after the last, emits N-1 retry notifications
\* and then terminates the process (retry = 1: one attempt, no retry, no sleep).
C1_FailingRunAttempts ==
    (runState \in {"running", "exited"} /\ args.retry >= 1) =>
        /\ execCount <= args.retry
        /\ tries = args.retry - (IF lastExc.type = "ok" THEN execCount - 1 ELSE execCount)
        /\ \A i \in DOMAIN sleeps : sleeps[i] = args.sleep
        /\ Cardinality(NotificationsBy("banner_spam")) =
                Len(sleeps) + (IF pc = "sleep" THEN 1 ELSE 0)
        /\ pc = "exec" => /\ Len(sleeps) = execCount
                          /\ execCount < args.retry
        /\ pc = "sleep" => /\ Len(sleeps) = execCount - 1
                           /\ execCount < args.retry
        /\ (pc = "flush" /\ lastExc.type # "ok" /\ execCount = args.retry) =>
                /\ pending.kind = "exit"
                /\ Len(sleeps) = args.retry - 1
        /\ runState = "exited" =>
                /\ execCount = args.retry
                /\ Len(sleeps) = args.retry - 1
                /\ lastExc.type # "ok"

C1_Witness ==
    /\ runState = "exited"
    /\ args.retry = 2
    /\ execCount = 2
    /\ sleeps = <<30>>

\* C2: when the retries are exhausted the process is terminated with the
\* returncode of the child of the final attempt when the exception carries one
\* and with 1 otherwise, and run does not return to its caller.
C2_ExitCodeOfFinalAttempt ==
    /\ runState = "exited" => /\ lastExc.type \notin {"ok", "none"}
                              /\ exitCode = ChildCode(lastExc)
    /\ (runState \in {"returned", "raised"} \/ pending.kind = "break")
            => lastExc.type = "ok"
    /\ (runState = "running" /\ lastExc.type \notin {"ok", "none"} /\ tries = 0)
            => /\ pc = "flush"
               /\ pending = [kind |-> "exit", code |-> ChildCode(lastExc)]

C2_Witness ==
    /\ runState = "exited"
    /\ execCount = 3
    /\ lastExc = [type |-> "CalledProcessError", returncode |-> 127]
    /\ exitCode = 127

\* C3: when attempt k (1 <= k <= retry) exits with status 0, run emits the
\* success notification and returns normally without terminating the process;
\* after that attempt it neither executes the command nor sleeps again.
C3_SuccessReturns ==
    /\ [](((runState \in {"running", "returned"}) /\ lastExc.type = "ok"
                /\ execCount <= args.retry) =>
            /\ log[Len(log)] = SuccessNotification(args)
            /\ Cardinality(NotificationsBy("banner_success")) = 2
            /\ NotificationsBy("banner_error") = {}
            /\ Len(sleeps) = execCount - 1
            /\ exitCode = -1
            /\ runState = "running" => (pc = "flush" /\ pending.kind = "break"))
    /\ [][(runState = "running" /\ lastExc.type = "ok" /\ execCount <= args.retry) =>
            /\ runState' = "returned"
            /\ execCount' = execCount
            /\ sleeps' = sleeps
            /\ log' = log]_vars

C3_Witness ==
    /\ runState = "returned"
    /\ args.retry = 3
    /\ execCount = 2
    /\ Len(sleeps) = 1
    /\ log[Len(log)] = SuccessNotification(args)

\* C4: with show_command false no notification of run (starting, retry,
\* success, error) carries the command text: the command is shown as
\* '***secret***' and the failure message is a fixed sentence.
C4_CommandRedacted ==
    (runState # "idle" /\ ~args.show_command) =>
        \A i \in DOMAIN log :
            /\ ~Mentions(log[i], args.command)
            /\ ~Mentions(log[i], Strip(args.command))
            /\ \A j \in DOMAIN log[i].text :
                    "val" \in DOMAIN log[i].text[j] => log[i].text[j].val = args.description
            /\ log[i].fn = "banner_error" =>
                    log[i].text = <<Lit("Error: "), Val(args.description),
                                    Lit("\nCommand: "), Lit("***secret***"), Lit("\n"),
                                    Lit("Command ***secret*** returned non-zero exit status")>>
            /\ (log[i].fn = "banner_spam" \/ i = 1) =>
                    log[i].text[Len(log[i].text)] = Lit("***secret***")

C4_Witness ==
    /\ runState = "exited"
    /\ ~args.show_command
    /\ args.command = <<"p", "w">>
    /\ lastExc.type = "CalledProcessError"
    /\ Len(log) = 3
    /\ log[3].fn = "banner_error"

\* C5: for every retry value, also 0 and negative ones, run makes a bounded
\* number of attempts (at most `retry`, and in any case never more than one
\* when retry < 1) before it returns or terminates the process.
C5_AttemptsBounded ==
    runState # "idle" => execCount <= (IF args.retry >= 1 THEN args.retry ELSE 1)

----------------------------------------------------------------------------
(* Properties of the decision layer *)

Caches == [ec |-> envCache, fc |-> fnCache]

NoCaches == [ec |-> EmptyMap, fc |-> EmptyMap]

\* s is the text after the last sep of t, or all of t when t holds no sep
IsLastSegmentOf(s, t, sep) ==
    /\ \A i \in DOMAIN s : s[i] # sep
    /\ \E k \in 0 .. Len(t) :
            /\ s = SubSeq(t, k + 1, Len(t))
            /\ k = 0 \/ t[k] = sep

\* s is 'true' in some mix of upper and lower case
IsTrueAnyCase(s) ==
    /\ Len(s) = 4
    /\ s[1] \in {"t", "T"}
    /\ s[2] \in {"r", "R"}
    /\ s[3] \in {"u", "U"}
    /\ s[4] \in {"e", "E"}

FlagFunctions ==
    { "do_build", "do_build_test", "do_flake8_tests", "do_mypy_tests", "do_pytest",
      "do_coverage", "do_upload_codecov", "do_upload_code_climate", "do_check_cli",
      "do_setup_py", "do_setup_py_test" }

\* C7: with fresh caches get_branch returns GITHUB_HEAD_REF verbatim for a
\* pull_request event, 'release' for a release event whatever GITHUB_REF is,
\* the last '/'-separated segment of a non-empty GITHUB_REF for a push event,
\* and 'unknown branch, event=<name>' for a push without GITHUB_REF and for
\* every other event name, the empty one too.
C7_GetBranch ==
    (lastCall.fn = "get_branch" /\ lastCall.fresh) =>
        LET event == os_getenv("GITHUB_EVENT_NAME")
            ref == os_getenv("GITHUB_REF")
            head == os_getenv("GITHUB_HEAD_REF")
        IN  /\ event = S_pull_request => lastCall.val = head
            /\ event = S_release => lastCall.val = S_release
            /\ (event = S_push /\ ref # <<>>) => IsLastSegmentOf(lastCall.val, ref, "/")
            /\ (event = S_push /\ ref = <<>>) => lastCall.val = S_unknown_branch \o S_push
            /\ event \notin {S_pull_request, S_release, S_push} =>
                    lastCall.val = S_unknown_branch \o event

C7_Witness ==
    /\ lastCall.fn = "get_branch"
    /\ lastCall.fresh
    /\ os_getenv("GITHUB_EVENT_NAME") = S_push
    /\ os_getenv("GITHUB_REF") = <<"r", "e", "f", "s", "/", "p", "u", "l", "l", "/", "7", "/", "m", "e", "r", "g", "e">>
    /\ lastCall.val = <<"m", "e", "r", "g", "e">>

\* C8: with fresh caches each boolean-flag function returns true iff its
\* environment variable is 'true' in any letter case, and false for every
\* other value: empty, unset, or 'true' with whitespace around it.
C8_BooleanFlags ==
    (lastCall.fn \in FlagFunctions /\ lastCall.fresh) =>
        \E v \in Reads(lastCall.fn) :
            /\ Reads(lastCall.fn) = {v}
            /\ lastCall.val = (v \in DOMAIN env /\ IsTrueAnyCase(env[v]))

C8_Witness ==
    /\ lastCall.fn = "do_coverage"
    /\ lastCall.fresh
    /\ "DO_COVERAGE" \in DOMAIN env
    /\ env["DO_COVERAGE"] = <<"t", "R", "u", "E">>
    /\ lastCall.val = TRUE

C10_ClearLeavesNothingStale ==
    epoch = "cleared" =>
        /\ \A f \in Functions : Invoke(f, Caches).val = Invoke(f, NoCaches).val
        /\ \A v \in EnvNames :
                get_env_data(v, Caches).val = (IF v \in DOMAIN env THEN env[v] ELSE <<>>)
        /\ \A f \in DOMAIN fnCache : fnCache[f] = Invoke(f, NoCaches).val
        /\ \A v \in DOMAIN envCache : envCache[v] = os_getenv(v)

\* after the clear, is_release is evaluated afresh on a changed variable
C10_Witness ==
    /\ epoch = "cleared"
    /\ lastCall.fn = "is_release"
    /\ "is_release" \in DOMAIN fnCache
    /\ lastCall.val = TRUE
    /\ "do_deploy" \notin DOMAIN fnCache
    /\ scope = {"BUILD", "GITHUB_EVENT_NAME"}

\* C12: with fresh caches do_build_docs returns true iff BUILD_DOCS is 'true'
\* in any letter case and RST_INCLUDE_SOURCE is non-empty and
\* RST_INCLUDE_TARGET is non-empty; it is false as soon as one of the three
\* conditions fails.
C12_BuildDocs ==
    (lastCall.fn = "do_build_docs" /\ lastCall.fresh) =>
        lastCall.val = ( /\ IsTrueAnyCase(os_getenv("BUILD_DOCS"))
                         /\ os_getenv("RST_INCLUDE_SOURCE") # <<>>
                         /\ os_getenv("RST_INCLUDE_TARGET") # <<>> )

\* the flag and the source are set, the missing target alone makes it false
C12_Witness ==
    /\ lastCall.fn = "do_build_docs"
    /\ lastCall.fresh
    /\ IsTrueAnyCase(os_getenv("BUILD_DOCS"))
    /\ os_getenv("RST_INCLUDE_SOURCE") # <<>>
    /\ os_getenv("RST_INCLUDE_TARGET") = <<>>
    /\ lastCall.val = FALSE

PrefixFunctions == {"get_pip_prefix", "get_python_prefix"}

\* the second variable a prefix function joins to cPREFIX
SecondPart(f) == IF f = "get_pip_prefix" THEN os_getenv("cPIP") ELSE os_getenv("cPYTHON")

NoOuterWhitespace(s) ==
    s # <<>> => (s[1] \notin Whitespace /\ s[Len(s)] \notin Whitespace)

\* the non-empty ones of a and b, joined by one space
JoinNonEmpty(a, b) ==
    IF a = <<>> THEN b
    ELSE IF b = <<>> THEN a
    ELSE a \o <<" ">> \o b

\* C16 as stated: with fresh caches get_pip_prefix (get_python_prefix)
\* returns cPREFIX and cPIP (cPYTHON) joined by a single space with empty
\* segments skipped, never with leading or trailing whitespace: exactly cPIP
\* when cPREFIX is empty, exactly cPREFIX when cPIP is empty, the empty string
\* when both are.
C16_PrefixExactly ==
    (lastCall.fn \in PrefixFunctions /\ lastCall.fresh) =>
        /\ NoOuterWhitespace(lastCall.val)
        /\ lastCall.val = JoinNonEmpty(os_getenv("cPREFIX"), SecondPart(lastCall.fn))

\* C16 amended: with fresh caches get_pip_prefix (get_python_prefix) returns
\* cPREFIX and cPIP (cPYTHON) joined by a single space with empty segments
\* skipped, and then stripped of leading and trailing whitespace, so the
\* result never has leading or trailing whitespace: the stripped cPIP when
\* cPREFIX is empty, the stripped cPREFIX when cPIP is empty, the empty string
\* when both are.
C16_PrefixStripped ==
    (lastCall.fn \in PrefixFunctions /\ lastCall.fresh) =>
        /\ NoOuterWhitespace(lastCall.val)
        /\ lastCall.val = Strip(JoinNonEmpty(os_getenv("cPREFIX"), SecondPart(lastCall.fn)))
        /\ os_getenv("cPREFIX") = <<>> => lastCall.val = Strip(SecondPart(lastCall.fn))
        /\ SecondPart(lastCall.fn) = <<>> => lastCall.val = Strip(os_getenv("cPREFIX"))

\* cPIP carries a leading blank that the result does not have
C16_Witness ==
    /\ lastCall.fn = "get_pip_prefix"
    /\ lastCall.fresh
    /\ os_getenv("cPREFIX") = <<>>
    /\ os_getenv("cPIP") = <<" ", "p", "i", "p">>
    /\ lastCall.val = <<"p", "i", "p">>

\* g() returns the same in this run and in the reference run
SameResult(g) == Invoke(g, Caches).val = Invoke(g, Reference).val

\* a step that calls a decision function, or clears the caches
DecisionStep ==
    \/ lastCall'.fn # lastCall.fn
    \/ lastCall'.arg # lastCall.arg
    \/ DOMAIN envCache' # DOMAIN envCache
    \/ DOMAIN fnCache' # DOMAIN fnCache
    \/ DOMAIN firstVal' # DOMAIN firstVal

\* C11 as stated: calling a decision function f leaves os.environ unchanged
\* and, under any interleaving of calls and writes of the environment, every
\* other decision function g that can be called returns afterwards what it
\* returns in the run where f was not called.
C11_CallChangesNoResult ==
    extra.fn # "none" => \A g \in Callable(scope) \ {extra.fn} : SameResult(g)

\* C11 amended: calling a decision function f leaves os.environ unchanged,
\* and as long as os.environ is not written after the call of f, every
\* decision function g returns what it returns in the run where f was not
\* called; the call of f only fills caches.
C11_CallChangesNoResultUntilWrite ==
    /\ []((extra.fn # "none" /\ ~extra.written) => \A g \in Callable(scope) : SameResult(g))
    /\ [][DecisionStep => env' = env]_vars

\* is_release() was the extra call, made before the event name was written:
\* do_deploy still answers true from the value is_release left in its cache
C11_Witness ==
    /\ extra = [fn |-> "is_release", written |-> TRUE]
    /\ os_getenv("GITHUB_EVENT_NAME") # S_release
    /\ do_deploy(Caches).val = TRUE
    /\ do_deploy(Reference).val = FALSE

\* C17: between two calls of clear_all_caches, every call of a decision
\* function, and of get_env_data with one variable name, returns what the
\* first such call returned, also when os.environ was written in between.
C17_RepeatedCallReturnsFirst ==
    lastCall.fn # "none" =>
        (<<lastCall.fn, lastCall.arg>> \in DOMAIN firstVal =>
            lastCall.val = firstVal[<<lastCall.fn, lastCall.arg>>])

\* do_build is called again after BUILD was written and still returns true
C17_Witness ==
    /\ lastCall.fn = "do_build"
    /\ lastCall.val = TRUE
    /\ ~lastCall.fresh
    /\ epoch = "written"
    /\ <<"do_build", "">> \in DOMAIN firstVal
    /\ ~IsTrueAnyCase(os_getenv("BUILD"))

----------------------------------------------------------------------------
(* Properties of the jobs *)

\* sub occurs in s as a run of consecutive elements
Contains(s, sub) ==
    \E i \in 0 .. Len(s) - Len(sub) : SubSeq(s, i + 1, i + Len(sub)) = sub

\* an interpolated value of the notification contains the text
Shows(n, text) ==
    \E i \in DOMAIN n.text : "val" \in DOMAIN n.text[i] /\ Contains(n.text[i].val, text)

\* the notifications emitted since the job was called: those of its own
\* statements and those of run
Emitted ==
    {log[i] : i \in DOMAIN log}
        \cup UNION {{trace[i].notes[k] : k \in DOMAIN trace[i].notes} : i \in DOMAIN trace}

\* C13: with dry_run true each of install, script, after_success and deploy
\* returns at once: no statement of the job is reached, no command is
\* executed, no notification is emitted and no decision function is
\* evaluated or cached.
C13_DryRunDoesNothing ==
    /\ []((job # "none" /\ dryRun) => (jobPc \in {"entry", "done"} /\ trace = <<>>))
    /\ [][(jobPc = "entry" /\ dryRun) =>
            (jobPc' = "done" /\ UNCHANGED <<runVars, env, envCache, fnCache>>)]_vars

\* script(dry_run=True) has returned in a fresh process
C13_Witness ==
    /\ job = "script"
    /\ dryRun
    /\ jobPc = "done"
    /\ CachesEmpty
    /\ log = <<>>
    /\ execCount = 0

\* C14 as stated: every statement of a job that a boolean decision guards
\* calls run when the decision is true, and emits a skip notification and
\* calls nothing when it is false.
C14_RunOrSkipNotification ==
    \A i \in DOMAIN trace :
        trace[i].gated =>
            IF trace[i].decision
            THEN trace[i].ran # <<>>
            ELSE trace[i].ran = <<>> /\ trace[i].notes # <<>>

\* C15: once a command of a job has failed for good the process is gone and
\* nothing happens any more; a statement of a job calls run only when the
\* run before it, if there was one, has returned after a success.
C15_FailureAbortsJob ==
    [][ /\ runState # "exited"
        /\ (Len(trace') > Len(trace) /\ trace'[Len(trace')].ran # <<>>) =>
                (runState \in {"idle", "returned"} /\ lastExc.type \in {"none", "ok"}) ]_vars

\* script has exited with the code of the failed command before its last
\* statement, after an earlier command had succeeded
C15_Witness ==
    /\ job = "script"
    /\ runState = "exited"
    /\ exitCode = 2
    /\ jobPc \notin {"entry", "done"}
    /\ \E i \in DOMAIN trace : i < Len(trace) /\ trace[i].ran # <<>>

\* C18: deploy(dry_run=False) calls run for the upload only if PYPI_PASSWORD
\* is non-empty after stripping and the build is a release build with BUILD
\* true; with the password missing it emits the warning and runs nothing,
\* with the password present and do_deploy() false it emits 'pypi deploy is
\* disabled on this build' and runs nothing.
C18_DeployNeedsPasswordAndRelease ==
    (job = "deploy" /\ ~dryRun /\ jobPc = "done") =>
        LET password == Strip(os_getenv("PYPI_PASSWORD"))
            release == IsTrueAnyCase(os_getenv("BUILD"))
                            /\ os_getenv("GITHUB_EVENT_NAME") = S_release
        IN  /\ Len(trace) = 1
            /\ (trace[1].ran # <<>> \/ execCount > 0) => (password # <<>> /\ release)
            /\ password = <<>> =>
                    /\ trace[1].ran = <<>>
                    /\ execCount = 0
                    /\ trace[1].notes =
                          <<Warning("can not deploy, because secret PYPI_PASSWORD is missing")>>
            /\ (password # <<>> /\ ~release) =>
                    /\ trace[1].ran = <<>>
                    /\ execCount = 0
                    /\ trace[1].notes = <<Spam("pypi deploy is disabled on this build")>>

\* a release build whose PYPI_PASSWORD holds a blank only
C18_Witness ==
    /\ job = "deploy"
    /\ ~dryRun
    /\ jobPc = "done"
    /\ os_getenv("PYPI_PASSWORD") = <<" ">>
    /\ IsTrueAnyCase(os_getenv("BUILD"))
    /\ os_getenv("GITHUB_EVENT_NAME") = S_release
    /\ trace[1].ran = <<>>
    /\ trace[1].notes # <<>>

\* C19: in deploy no emitted notification shows the stripped value of
\* PYPI_PASSWORD, whichever way deploy goes, and the command that carries
\* the password is handed to run with show_command=False.
C19_PasswordNeverShown ==
    (job = "deploy" /\ Strip(os_getenv("PYPI_PASSWORD")) # <<>>) =>
        LET password == Strip(os_getenv("PYPI_PASSWORD"))
        IN  /\ \A n \in Emitted : ~Shows(n, password)
            /\ \A i \in DOMAIN trace :
                    trace[i].ran # <<>> =>
                        /\ Contains(trace[i].ran[1].command, password)
                        /\ ~trace[i].ran[1].show_command

\* the upload was retried twice and failed for good
C19_Witness ==
    /\ job = "deploy"
    /\ runState = "exited"
    /\ os_getenv("PYPI_PASSWORD") = <<" ", "s", "3", "c", "\n">>
    /\ Len(log) = 4
    /\ Len(sleeps) = 2
    /\ Contains(args.command, <<"s", "3", "c">>)

====
